---- MODULE Spec2Model ----
(***************************************************************************)
(* The inverted index of rust-knowledge-search (src/src/index.rs) and the  *)
(* tokenizer it relies on (src/src/tokenizer.rs), as a state machine whose *)
(* actions are the public operations of Index.                             *)
(***************************************************************************)
EXTENDS Integers, Sequences, FiniteSets, TLC

\* ------------------------------------------------------------------ bounds
NumIds == 2
NumPaths == 2

Ids == 1..NumIds
Paths == 1..NumPaths

\* ------------------------------------------------------------------ inputs
\* Texts are sequences of characters. "E" stands for a non-ASCII letter.
Contents ==
  { <<"!">>,
    <<"A">>,
    <<"A", " ", "b">>,
    <<"b", "!", "b">> }

Queries ==
  { << >>,
    <<"?">>,
    <<"A">>,
    <<"b", " ", "B">>,
    <<"a", "E", "b">> }

ModifiedVals == {"None"}

\* ingestion.rs: struct Document { id, path, content, modified }
Document == [id : Ids, path : Paths, content : Contents, modified : ModifiedVals]

\* --------------------------------------------------------------- tokenizer
\* char::to_lowercase on the characters of the model's alphabet
ToLowercase(ch) ==
  CASE ch = "A" -> "a"
    [] ch = "B" -> "b"
    [] OTHER -> ch

IsAsciiAlphanumeric(ch) == ch \in {"a", "b", "A", "B"}

IsWhitespace(ch) == ch = " "

\* tokenizer.rs lines 3-16: lower-case, then every character that is not
\* ASCII alphanumeric or whitespace becomes a space
Cleaned(text) ==
  [i \in 1..Len(text) |->
     LET ch == ToLowercase(text[i])
     IN IF IsAsciiAlphanumeric(ch) \/ IsWhitespace(ch) THEN ch ELSE " "]

\* str::split_whitespace: the maximal runs of non-whitespace characters, in
\* order; cur is the run being read, acc the tokens already produced
RECURSIVE SplitWhitespace(_, _, _, _)
SplitWhitespace(s, i, cur, acc) ==
  IF i > Len(s)
  THEN IF cur = "" THEN acc ELSE Append(acc, cur)
  ELSE IF IsWhitespace(s[i])
       THEN SplitWhitespace(s, i + 1, "",
                            IF cur = "" THEN acc ELSE Append(acc, cur))
       ELSE SplitWhitespace(s, i + 1, cur \o s[i], acc)

\* tokenizer.rs: pub fn tokenize(text: &str) -> Vec<String>
Tokenize(text) == SplitWhitespace(Cleaned(text), 1, "", << >>)

Range(s) == {s[i] : i \in DOMAIN s}

\* let unique_tokens: HashSet<String> = tokens.into_iter().collect();
UniqueTokens(content) == Range(Tokenize(content))

\* ------------------------------------------------------------ map helpers
EmptyMap == [k \in {} |-> {}]

MapInsert(m, k, v) == [x \in DOMAIN m \cup {k} |-> IF x = k THEN v ELSE m[x]]

MapRemove(m, k) == [x \in DOMAIN m \ {k} |-> m[x]]

\* ------------------------------------------------------------------- state
VARIABLES postings, documents, path_to_id, doc_tokens, last, result, fresh_adds

\* the synchronizer thread of main.rs, its two channels, the index mutex, the
\* query caller and the snapshot file
VARIABLES pc, queue, tx_alive, shutdown, event, doc_opt, new_doc, lock, rpc,
          snapshot, sent, taken, persist, closed_with, applied

maps == <<postings, documents, path_to_id, doc_tokens>>
syncvars == <<pc, queue, tx_alive, shutdown, event, doc_opt, new_doc, lock, rpc,
              snapshot, sent, taken, persist, closed_with,
              applied>>
vars == <<postings, documents, path_to_id, doc_tokens, last, result, fresh_adds,
          syncvars>>

\* the Index value held by the four state variables
Self ==
  [postings |-> postings, documents |-> documents,
   path_to_id |-> path_to_id, doc_tokens |-> doc_tokens]

\* Index::new
NewIndex ==
  [postings |-> EmptyMap, documents |-> EmptyMap,
   path_to_id |-> EmptyMap, doc_tokens |-> EmptyMap]

\* ------------------------------------------------------ Index operations
\* faulty variant of InsertPostings: the posting set of a token is replaced
\* by the new id instead of being extended
InsertPostingsOverwrite(p, tokens, doc_id) ==
  [t \in DOMAIN p \cup tokens |-> IF t \in tokens THEN {doc_id} ELSE p[t]]

\* index.rs lines 39-44: insert doc_id into postings[token] for every token,
\* creating the set when the token has none
InsertPostings(p, tokens, doc_id) ==
  [t \in DOMAIN p \cup tokens |->
     (IF t \in DOMAIN p THEN p[t] ELSE {})
       \cup (IF t \in tokens THEN {doc_id} ELSE {})]

\* Index::add_document
AddDocument(idx, doc) ==
  LET unique_tokens == UniqueTokens(doc.content)
  IN [doc_tokens |-> MapInsert(idx.doc_tokens, doc.id, unique_tokens),
      postings   |-> InsertPostings(idx.postings, unique_tokens, doc.id),
      documents  |-> MapInsert(idx.documents, doc.id, doc),
      path_to_id |-> MapInsert(idx.path_to_id, doc.path, doc.id)]

\* faulty variant of RemovePostings: an entry that becomes empty is kept
RemovePostingsKeepEmpty(p, tokens, doc_id) ==
  [t \in DOMAIN p |-> IF t \in tokens THEN p[t] \ {doc_id} ELSE p[t]]

\* index.rs lines 62-71: discard doc_id from postings[token] for every token
\* of the document, deleting an entry that becomes empty
RemovePostings(p, tokens, doc_id) ==
  [t \in {u \in DOMAIN p : ~(u \in tokens /\ p[u] \ {doc_id} = {})} |->
     IF t \in tokens THEN p[t] \ {doc_id} ELSE p[t]]

\* Index::remove_document: the path entry goes first, keyed by the stored
\* path of the document; an id without doc_tokens returns after that
RemoveDocument(idx, doc_id) ==
  LET paths1 == IF doc_id \in DOMAIN idx.documents
                THEN MapRemove(idx.path_to_id, idx.documents[doc_id].path)
                ELSE idx.path_to_id
  IN IF doc_id \notin DOMAIN idx.doc_tokens
     THEN [idx EXCEPT !.path_to_id = paths1]
     ELSE [postings   |-> RemovePostings(idx.postings, idx.doc_tokens[doc_id], doc_id),
           doc_tokens |-> MapRemove(idx.doc_tokens, doc_id),
           documents  |-> MapRemove(idx.documents, doc_id),
           path_to_id |-> paths1]

\* faulty variant of RemoveDocumentByPath: the document is looked up by its
\* stored path in documents instead of through path_to_id
RemoveDocumentByPathScan(idx, path) ==
  LET stored == {d \in DOMAIN idx.documents : idx.documents[d].path = path}
  IN IF stored # {}
     THEN RemoveDocument(idx, CHOOSE d \in stored : TRUE)
     ELSE idx

\* Index::remove_document_by_path
RemoveDocumentByPath(idx, path) ==
  IF path \in DOMAIN idx.path_to_id
  THEN RemoveDocument(idx, idx.path_to_id[path])
  ELSE idx

\* faulty variant of UpsertDocument: the document already at the path is not
\* removed first
UpsertDocumentNoRemove(idx, doc) == AddDocument(idx, doc)

\* Index::upsert_document
UpsertDocument(idx, doc) ==
  AddDocument(IF doc.path \in DOMAIN idx.path_to_id
              THEN RemoveDocument(idx, idx.path_to_id[doc.path])
              ELSE idx,
              doc)

\* index.rs lines 82-93: the loop over the query's tokens, accumulating the
\* ids of every posting set that exists into a HashSet
RECURSIVE CollectIds(_, _, _, _)
CollectIds(idx, tokens, i, doc_ids) ==
  IF i > Len(tokens)
  THEN doc_ids
  ELSE CollectIds(idx, tokens, i + 1,
                  IF tokens[i] \in DOMAIN idx.postings
                  THEN doc_ids \cup idx.postings[tokens[i]]
                  ELSE doc_ids)

\* faulty variant of SearchDocIds: a query that matches nothing falls back to
\* every document
SearchDocIdsFallback(idx, query) ==
  LET found == CollectIds(idx, Tokenize(query), 1, {})
  IN IF found = {} THEN DOMAIN idx.documents ELSE found

\* the HashSet search_query builds for a query
SearchDocIds(idx, query) == CollectIds(idx, Tokenize(query), 1, {})

\* doc_ids.into_iter().collect(): the elements of the set, each once, in an
\* order the hash decides
Orderings(S) == {s \in [1..Cardinality(S) -> S] : Range(s) = S}

\* faulty variant of SearchQuery: the ids of every matching token are pushed
\* onto a Vec, so an id matched by two tokens is returned twice
RECURSIVE PushIds(_, _, _)
PushIds(idx, tokens, i) ==
  IF i > Len(tokens)
  THEN {<< >>}
  ELSE LET here == IF tokens[i] \in DOMAIN idx.postings
                   THEN Orderings(idx.postings[tokens[i]])
                   ELSE {<< >>}
       IN {h \o r : h \in here, r \in PushIds(idx, tokens, i + 1)}

SearchQueryPush(idx, query) == PushIds(idx, Tokenize(query), 1)

\* Index::search_query: the Vec<Uuid> values the call can return
SearchQuery(idx, query) == Orderings(SearchDocIds(idx, query))

\* ----------------------------------------------------------------- actions
NoDoc == [id |-> 0]

\* ------------------------------------------ synchronizer thread (main.rs)
\* Bound on the number of IndexEvents the translator sends in one run
MaxEvents == 2

\* watcher.rs: enum IndexEvent { Created, Modified, Deleted }
EventKinds == {"Created", "Modified", "Deleted"}

IndexEvent == [kind : EventKinds, path : Paths]

\* what fs::read_to_string can return for a watched file
FileTexts == { <<"A">>, <<"b", "!", "b">> }

\* the query of the one run_search call of main
CliQuery == <<"b", " ", "B">>

NoEvent == [kind |-> "none"]

\* doc_opt = None
NoRead == [ok |-> FALSE]

\* index.json does not exist
NoSnapshot == [state |-> "absent"]

\* a write of index.json that failed half way
PartialSnapshot == [state |-> "partial"]

\* no save_to_disk call yet, none of them failed
NoPersist == [outcome |-> "none", failed_before |-> FALSE]

\* the entries of a map as the key/value pairs of a JSON object
Entries(m) == {<<k, m[k]>> : k \in DOMAIN m}

\* doc_tokens left out of the snapshot, as under #[serde(skip)]
SerializeSkipDocTokens(idx) ==
  [state |-> "written",
   postings |-> Entries(idx.postings),
   documents |-> Entries(idx.documents),
   path_to_id |-> Entries(idx.path_to_id),
   doc_tokens |-> {}]

\* serde_json::to_string_pretty(self): the four maps as JSON objects
Serialize(idx) ==
  [state |-> "written",
   postings |-> Entries(idx.postings),
   documents |-> Entries(idx.documents),
   path_to_id |-> Entries(idx.path_to_id),
   doc_tokens |-> Entries(idx.doc_tokens)]

\* the synchronizer thread has not been started: the state of the
\* thread, the channels, the mutex and the snapshot file outside a run
SyncIdle ==
  /\ pc = "idle"
  /\ queue = << >>
  /\ tx_alive = FALSE
  /\ shutdown = "idle"
  /\ event = NoEvent
  /\ doc_opt = NoRead
  /\ new_doc = NoDoc
  /\ lock = "free"
  /\ rpc = "idle"
  /\ snapshot = NoSnapshot
  /\ sent = << >>
  /\ taken = << >>
  /\ persist = NoPersist
  /\ closed_with = 0
  /\ applied = << >>


Init ==
  /\ postings = NewIndex.postings
  /\ documents = NewIndex.documents
  /\ path_to_id = NewIndex.path_to_id
  /\ doc_tokens = NewIndex.doc_tokens
  /\ last = [op |-> "new"]
  /\ result = << >>
  /\ fresh_adds = TRUE
  /\ SyncIdle

\* the four maps take the value of the index record idx
Become(idx) ==
  /\ postings' = idx.postings
  /\ documents' = idx.documents
  /\ path_to_id' = idx.path_to_id
  /\ doc_tokens' = idx.doc_tokens

Add(doc) ==
  /\ Become(AddDocument(Self, doc))
  /\ last' = [op |-> "add", doc |-> doc]
  /\ fresh_adds' = (fresh_adds /\ doc.id \notin DOMAIN documents)
  /\ result' = << >>

Remove(doc_id) ==
  /\ Become(RemoveDocument(Self, doc_id))
  /\ last' = [op |-> "remove", id |-> doc_id, hit |-> doc_id \in DOMAIN documents,
              tokens |-> IF doc_id \in DOMAIN doc_tokens
                         THEN doc_tokens[doc_id] ELSE {}]
  /\ result' = << >>
  /\ UNCHANGED fresh_adds

RemoveByPath(path) ==
  /\ Become(RemoveDocumentByPath(Self, path))
  /\ last' = [op |-> "remove_by_path", path |-> path,
              hit |-> path \in DOMAIN path_to_id]
  /\ result' = << >>
  /\ UNCHANGED fresh_adds

Upsert(doc) ==
  /\ Become(UpsertDocument(Self, doc))
  /\ last' = [op |-> "upsert", doc |-> doc,
              prior |-> IF last.op = "upsert" /\ last.doc.path = doc.path
                        THEN last.doc ELSE NoDoc]
  /\ result' = << >>
  /\ UNCHANGED fresh_adds

Search(query) ==
  /\ result' \in SearchQuery(Self, query)
  /\ last' = [op |-> "search", query |-> query]
  /\ UNCHANGED <<maps, fresh_adds>>

Next ==
  \/ \E doc \in Document : Add(doc) /\ UNCHANGED syncvars
  \/ \E doc_id \in Ids : Remove(doc_id) /\ UNCHANGED syncvars
  \/ \E path \in Paths : RemoveByPath(path) /\ UNCHANGED syncvars
  \/ \E doc \in Document : Upsert(doc) /\ UNCHANGED syncvars
  \/ \E query \in Queries : Search(query) /\ UNCHANGED syncvars

Spec == Init /\ [][Next]_vars


\* ------------------------------------------------- the consumer loop
\* a lock that is granted whoever holds it
CanLockAlways(holder) == TRUE

\* Mutex::lock: the caller gets the mutex when nobody holds it
CanLock(holder) == holder = "free"

\* the id of no document, path entry or posting of idx
UnusedIds(idx) ==
  {id \in Ids :
     /\ id \notin DOMAIN idx.documents
     /\ id \notin DOMAIN idx.doc_tokens
     /\ id \notin {idx.path_to_id[p] : p \in DOMAIN idx.path_to_id}
     /\ \A t \in DOMAIN idx.postings : id \notin idx.postings[t]}

\* a new Uuid for every event, whatever the path is bound to
DocIdAlwaysFresh(idx, path) == UnusedIds(idx)

\* main.rs lines 135-139: the id already bound to the path, else a fresh
\* Uuid::new_v4()
DocIdFor(idx, path) ==
  IF path \in DOMAIN idx.path_to_id
  THEN {idx.path_to_id[path]}
  ELSE UnusedIds(idx)

\* an error of save_to_disk ends the thread
AfterSaveFatal(outcome) == IF outcome = "failed" THEN "exited" ELSE "check_shutdown"

\* main.rs lines 164-167: the loop goes on after a save, whatever its outcome
AfterSave(outcome) == "check_shutdown"

InitSync ==
  /\ postings = NewIndex.postings
  /\ documents = NewIndex.documents
  /\ path_to_id = NewIndex.path_to_id
  /\ doc_tokens = NewIndex.doc_tokens
  /\ last = [op |-> "new"]
  /\ result = << >>
  /\ fresh_adds = TRUE
  /\ pc = "check_shutdown"
  /\ queue = << >>
  /\ tx_alive = TRUE
  /\ shutdown = "idle"
  /\ event = NoEvent
  /\ doc_opt = NoRead
  /\ new_doc = NoDoc
  /\ lock = "free"
  /\ rpc = "start"
  /\ snapshot = NoSnapshot
  /\ sent = << >>
  /\ taken = << >>
  /\ persist = NoPersist
  /\ closed_with = 0
  /\ applied = << >>

\* the newest queued event is delivered first
NextEventNewest(q) == q[Len(q)]

\* Receiver::recv delivers the oldest queued event (main.rs lines 100-101)
NextEvent(q) == Head(q)

\* recv fails as soon as the sender is gone, queued events or not
RecvFailsWhenClosed(q, alive) == ~alive

\* Receiver::recv returns Err only when the channel is empty and every
\* Sender was dropped (main.rs lines 100-106)
RecvFails(q, alive) == q = << >> /\ ~alive

\* main.rs lines 87-95: shutdown_rx.try_recv()
CheckShutdown ==
  /\ pc = "check_shutdown"
  /\ IF shutdown = "sent"
     THEN pc' = "exited" /\ shutdown' = "received"
     ELSE pc' = "recv" /\ UNCHANGED shutdown
  /\ UNCHANGED <<maps, last, result, fresh_adds, queue, tx_alive, event, doc_opt,
                 new_doc, lock, rpc, snapshot, sent, taken, persist, closed_with,
                 applied>>

\* main.rs lines 100-106: rx.recv() blocks while the queue is empty and a
\* sender lives, and fails when the queue is empty and every sender is gone
Recv ==
  /\ pc = "recv"
  /\ IF RecvFails(queue, tx_alive)
     THEN /\ pc' = "exited"
          /\ UNCHANGED <<event, queue, taken>>
     ELSE /\ queue # << >>
          /\ event' = NextEvent(queue)
          /\ queue' = Tail(queue)
          /\ taken' = Append(taken, NextEvent(queue))
          /\ pc' = "read"
  /\ UNCHANGED <<maps, last, result, fresh_adds, tx_alive, shutdown, doc_opt,
                 new_doc, lock, rpc, snapshot, sent, persist, closed_with,
                 applied>>

\* the file is read whatever the kind of the event
ReadOutcomesAnyKind(ev) ==
  {NoRead} \cup {[ok |-> TRUE, path |-> ev.path, content |-> c] : c \in FileTexts}

\* main.rs lines 112-123: the values doc_opt can take: for Created and
\* Modified what fs::read_to_string gives, None if it fails; None for Deleted
ReadOutcomes(ev) ==
  IF ev.kind \in {"Created", "Modified"}
  THEN {NoRead} \cup {[ok |-> TRUE, path |-> ev.path, content |-> c] : c \in FileTexts}
  ELSE {NoRead}

\* main.rs lines 112-123: the file is read for Created and Modified, without
\* the lock; Deleted reads nothing
ReadFile ==
  /\ pc = "read"
  /\ doc_opt' \in ReadOutcomes(event)
  /\ pc' = "lock_mutate"
  /\ UNCHANGED <<maps, last, result, fresh_adds, queue, tx_alive, shutdown, event,
                 new_doc, lock, rpc, snapshot, sent, taken, persist, closed_with,
                 applied>>

\* main.rs line 129: index_clone.lock()
LockMutate ==
  /\ pc = "lock_mutate"
  /\ CanLock(lock)
  /\ lock' = "sync"
  /\ pc' = "mutate"
  /\ UNCHANGED <<maps, last, result, fresh_adds, queue, tx_alive, shutdown, event,
                 doc_opt, new_doc, rpc, snapshot, sent, taken, persist, closed_with,
                 applied>>

\* the document already stored with the path is left in place
RemovePriorSkipped(idx, path) == idx

\* index.rs lines 107-109: the first half of upsert_document removes the
\* document the path is bound to
RemovePrior(idx, path) ==
  IF path \in DOMAIN idx.path_to_id
  THEN RemoveDocument(idx, idx.path_to_id[path])
  ELSE idx

\* a file that cannot be read is taken for a file that is gone
OnReadFailureRemoves(idx, path) == RemoveDocumentByPath(idx, path)

\* main.rs lines 133 and 151: `if let Some(..) = doc_opt` has no else branch
OnReadFailure(idx, path) == idx

\* main.rs lines 131-157 up to the removal inside upsert_document
\* (index.rs lines 107-109): Deleted removes by path; a failed read mutates
\* nothing; otherwise the Document is built and the document already at the
\* path is removed
Mutate ==
  /\ pc = "mutate"
  /\ IF event.kind = "Deleted"
     THEN /\ Become(RemoveDocumentByPath(Self, event.path))
          /\ last' = [op |-> "remove_by_path", path |-> event.path,
                      hit |-> event.path \in DOMAIN path_to_id]
          /\ pc' = "unlock"
          /\ persist' = [persist EXCEPT !.outcome = "pending"]
          /\ applied' = Append(applied, [op |-> "remove_by_path", path |-> event.path])
          /\ UNCHANGED new_doc
     ELSE IF ~doc_opt.ok
     THEN /\ Become(OnReadFailure(Self, event.path))
          /\ last' = [op |-> "dropped", kind |-> event.kind, path |-> event.path]
          /\ pc' = "unlock"
          /\ applied' = Append(applied, [op |-> "dropped", path |-> event.path])
          /\ UNCHANGED <<new_doc, persist>>
     ELSE /\ \E doc_id \in DocIdFor(Self, doc_opt.path) :
               new_doc' = [id |-> doc_id, path |-> doc_opt.path,
                           content |-> doc_opt.content, modified |-> "Some"]
          /\ Become(RemovePrior(Self, doc_opt.path))
          /\ pc' = "add"
          /\ persist' = [persist EXCEPT !.outcome = "pending"]
          /\ UNCHANGED <<last, applied>>
  /\ UNCHANGED <<result, fresh_adds, queue, tx_alive, shutdown, event, doc_opt,
                 lock, rpc, snapshot, sent, taken, closed_with>>

\* index.rs line 111: the add_document call that ends upsert_document
AddNew ==
  /\ pc = "add"
  /\ Become(AddDocument(Self, new_doc))
  /\ last' = [op |-> "upsert", doc |-> new_doc, kind |-> event.kind,
              prior |-> IF last.op = "upsert" /\ last.doc.path = new_doc.path
                        THEN last.doc ELSE NoDoc,
              prior_kind |-> IF last.op = "upsert" /\ last.doc.path = new_doc.path
                             THEN last.kind ELSE "none"]
  /\ applied' = Append(applied, [op |-> "upsert", path |-> new_doc.path,
                                  content |-> new_doc.content])
  /\ new_doc' = NoDoc
  /\ pc' = "unlock"
  /\ UNCHANGED <<result, fresh_adds, queue, tx_alive, shutdown, event, doc_opt,
                 lock, rpc, snapshot, sent, taken, persist, closed_with>>

\* the guard does not give the mutex back
ReleasedKept(holder) == holder

\* the drop of a MutexGuard (main.rs lines 158, 166 and 70) frees the mutex
Released(holder) == "free"

\* main.rs line 158: the guard of the mutation goes out of scope
Unlock ==
  /\ pc = "unlock"
  /\ lock' = Released(lock)
  /\ pc' = "lock_save"
  /\ UNCHANGED <<maps, last, result, fresh_adds, queue, tx_alive, shutdown, event,
                 doc_opt, new_doc, rpc, snapshot, sent, taken, persist, closed_with,
                 applied>>

\* main.rs line 164: shared_index.lock()
LockSave ==
  /\ pc = "lock_save"
  /\ CanLock(lock)
  /\ lock' = "sync"
  /\ pc' = "save"
  /\ UNCHANGED <<maps, last, result, fresh_adds, queue, tx_alive, shutdown, event,
                 doc_opt, new_doc, rpc, snapshot, sent, taken, persist, closed_with,
                 applied>>

\* main.rs lines 164-167 and index.rs lines 114-121: save_to_disk under the
\* lock; a failed fs::write leaves the old file or a partial one and is only
\* logged. The paths of the model are valid UTF-8, for which
\* serde_json::to_string_pretty succeeds and the expect of index.rs line 116
\* does not panic
Save ==
  /\ pc = "save"
  /\ \E outcome \in {"ok", "failed"} :
       /\ IF outcome = "ok"
          THEN snapshot' = Serialize(Self)
          ELSE snapshot' \in {snapshot, PartialSnapshot}
       /\ persist' = [outcome |-> outcome,
                      failed_before |-> persist.failed_before \/ outcome = "failed"]
       /\ pc' = AfterSave(outcome)
  /\ lock' = Released(lock)
  /\ event' = NoEvent
  /\ doc_opt' = NoRead
  /\ UNCHANGED <<maps, last, result, fresh_adds, queue, tx_alive, shutdown,
                 new_doc, rpc, sent, taken, closed_with,
                 applied>>

\* main.rs line 66 in run_search: shared_index.lock()
ReaderLock ==
  /\ rpc = "start"
  /\ CanLock(lock)
  /\ lock' = "reader"
  /\ rpc' = "search"
  /\ UNCHANGED <<maps, last, result, fresh_adds, pc, queue, tx_alive, shutdown,
                 event, doc_opt, new_doc, snapshot, sent, taken, persist, closed_with,
                 applied>>

\* main.rs line 68: index.search_query(&query)
ReaderSearch ==
  /\ rpc = "search"
  /\ result' \in SearchQuery(Self, CliQuery)
  /\ rpc' = "print"
  /\ UNCHANGED <<maps, last, fresh_adds, pc, queue, tx_alive, shutdown, event,
                 doc_opt, new_doc, lock, snapshot, sent, taken, persist, closed_with,
                 applied>>

\* main.rs line 69: the results are printed
ReaderPrint ==
  /\ rpc = "print"
  /\ rpc' = "return"
  /\ UNCHANGED <<maps, last, result, fresh_adds, pc, queue, tx_alive, shutdown,
                 event, doc_opt, new_doc, lock, snapshot, sent, taken, persist, closed_with,
                 applied>>

\* main.rs line 70: the guard is dropped when run_search returns
ReaderReturn ==
  /\ rpc = "return"
  /\ lock' = Released(lock)
  /\ rpc' = "done"
  /\ UNCHANGED <<maps, last, result, fresh_adds, pc, queue, tx_alive, shutdown,
                 event, doc_opt, new_doc, snapshot, sent, taken, persist, closed_with,
                 applied>>

\* watcher.rs line 45: the translator sends an IndexEvent
Translate(ev) ==
  /\ tx_alive
  /\ Len(sent) < MaxEvents
  /\ queue' = Append(queue, ev)
  /\ sent' = Append(sent, ev)
  /\ UNCHANGED <<maps, last, result, fresh_adds, pc, tx_alive, shutdown, event,
                 doc_opt, new_doc, lock, rpc, snapshot, taken, persist, closed_with,
                 applied>>

\* the watcher, and with it the only Sender, is dropped
CloseSource ==
  /\ tx_alive
  /\ tx_alive' = FALSE
  /\ closed_with' = Len(queue)
  /\ UNCHANGED <<maps, last, result, fresh_adds, pc, queue, shutdown, event,
                 doc_opt, new_doc, lock, rpc, snapshot, sent, taken, persist, applied>>

\* a () is sent on the shutdown channel of main.rs line 48
SendShutdown ==
  /\ shutdown = "idle"
  /\ shutdown' = "sent"
  /\ UNCHANGED <<maps, last, result, fresh_adds, pc, queue, tx_alive, event,
                 doc_opt, new_doc, lock, rpc, snapshot, sent, taken, persist, closed_with,
                 applied>>

\* the steps of the synchronizer thread
SyncStep ==
  \/ CheckShutdown
  \/ Recv
  \/ ReadFile
  \/ LockMutate
  \/ Mutate
  \/ AddNew
  \/ Unlock
  \/ LockSave
  \/ Save

\* the steps of the query caller
ReaderStep == ReaderLock \/ ReaderSearch \/ ReaderPrint \/ ReaderReturn

NextSync ==
  \/ SyncStep
  \/ ReaderStep
  \/ \E ev \in IndexEvent : Translate(ev)
  \/ CloseSource
  \/ SendShutdown

SpecSync == InitSync /\ [][NextSync]_vars

\* the scheduler runs the synchronizer thread and the query caller whenever
\* they can take a step; the translator and the shutdown sender owe nothing
FairSpecSync == SpecSync /\ WF_vars(SyncStep) /\ WF_vars(ReaderStep)

\* ------------------------------------------- the spawned thread as written
\* main.rs lines 72-83: the thread owns tx and rx and calls watch_notes(tx)
\* before it enters the loop
InitThread ==
  /\ postings = NewIndex.postings
  /\ documents = NewIndex.documents
  /\ path_to_id = NewIndex.path_to_id
  /\ doc_tokens = NewIndex.doc_tokens
  /\ last = [op |-> "new"]
  /\ result = << >>
  /\ fresh_adds = TRUE
  /\ pc = "watch_notes"
  /\ queue = << >>
  /\ tx_alive = TRUE
  /\ shutdown = "idle"
  /\ event = NoEvent
  /\ doc_opt = NoRead
  /\ new_doc = NoDoc
  /\ lock = "free"
  /\ rpc = "start"
  /\ snapshot = NoSnapshot
  /\ sent = << >>
  /\ taken = << >>
  /\ persist = NoPersist
  /\ closed_with = 0
  /\ applied = << >>

\* watcher.rs lines 15-54 and main.rs lines 79-81: recommended_watcher or
\* watch fails, watch_notes returns the error and the callback that owns tx
\* is dropped before anything was watched
WatchNotesFails ==
  /\ pc = "watch_notes"
  /\ tx_alive' = FALSE
  /\ closed_with' = Len(queue)
  /\ pc' = "check_shutdown"
  /\ UNCHANGED <<maps, last, result, fresh_adds, queue, shutdown, event, doc_opt,
                 new_doc, lock, rpc, snapshot, sent, taken, persist, applied>>

\* watcher.rs lines 54-59: the watch is set up and watch_notes parks its
\* caller in a loop that has no exit
WatchNotesParks ==
  /\ pc = "watch_notes"
  /\ pc' = "parked"
  /\ UNCHANGED <<maps, last, result, fresh_adds, queue, tx_alive, shutdown, event,
                 doc_opt, new_doc, lock, rpc, snapshot, sent, taken, persist, closed_with,
                 applied>>

\* watcher.rs lines 15-51: the callback runs once the directory is watched
WatcherSends(ev) == pc = "parked" /\ Translate(ev)

\* the steps of the thread spawned at main.rs line 78; the steps of the loop
\* after rx.recv() are not listed: no run of the thread gets to them
ThreadStep == WatchNotesFails \/ WatchNotesParks \/ CheckShutdown \/ Recv

NextThread ==
  \/ ThreadStep
  \/ ReaderStep
  \/ \E ev \in IndexEvent : WatcherSends(ev)

SpecThread == InitThread /\ [][NextThread]_vars

\* the scheduler runs the thread and the query caller whenever they can step
FairSpecThread == SpecThread /\ WF_vars(ThreadStep) /\ WF_vars(ReaderStep)

\* ------------------------------------------------- snapshot and restore
\* the map whose entries are the key/value pairs of es
FromEntries(es) ==
  [k \in {e[1] : e \in es} |-> (CHOOSE e \in es : e[1] = k)[2]]

\* the Index a written snapshot encodes, by the Deserialize derived at
\* index.rs line 11
Deserialize(snap) ==
  [postings |-> FromEntries(snap.postings),
   documents |-> FromEntries(snap.documents),
   path_to_id |-> FromEntries(snap.path_to_id),
   doc_tokens |-> FromEntries(snap.doc_tokens)]

\* index.rs line 123: load_from_disk is declared to return io::Result<Self>
\* and its body is empty, so the source reads no file and fixes no result.
\* The result is left open: an error, an empty Index or, for a written
\* snapshot, the Index it encodes
LoadFromDisk(snap) ==
  {[ok |-> FALSE], [ok |-> TRUE, index |-> NewIndex]}
    \cup (IF snap.state = "written"
          THEN {[ok |-> TRUE, index |-> Deserialize(snap)]}
          ELSE {})

\* main.rs line 42: unwrap_or_else(|_| Index::new())
UnwrapOrNew(r) == IF r.ok THEN r.index ELSE NewIndex

\* a failed load ends the process, as under unwrap()
AfterLoadFatal(r) == IF r.ok THEN "started" ELSE "panicked"

\* main.rs lines 42-59: main goes on after the load, whatever its result
AfterLoad(r) == "started"

\* index.rs lines 114-121: save_to_disk of the current index, after which
\* the process ends
SaveToDisk ==
  /\ pc = "idle"
  /\ \E outcome \in {"ok", "failed"} :
       /\ IF outcome = "ok"
          THEN snapshot' = Serialize(Self)
          ELSE snapshot' \in {snapshot, PartialSnapshot}
       /\ last' = [op |-> "save", ok |-> outcome = "ok"]
  /\ pc' = "saved"
  /\ result' = << >>
  /\ UNCHANGED <<maps, fresh_adds, queue, tx_alive, shutdown, event, doc_opt,
                 new_doc, lock, rpc, sent, taken, persist, closed_with, applied>>

\* main.rs lines 41-45: a new process loads the index from INDEX_PATH
Startup ==
  /\ pc \in {"idle", "saved"}
  /\ \E r \in LoadFromDisk(snapshot) :
       /\ Become(UnwrapOrNew(r))
       /\ last' = [op |-> "load", ok |-> r.ok]
       /\ pc' = AfterLoad(r)
  /\ result' = << >>
  /\ UNCHANGED <<fresh_adds, queue, tx_alive, shutdown, event, doc_opt, new_doc,
                 lock, rpc, snapshot, sent, taken, persist, closed_with, applied>>

\* the index operations of a run, its last save and the start of the next run
NextRestore ==
  \/ pc = "idle" /\ Next
  \/ SaveToDisk
  \/ Startup

SpecRestore == Init /\ [][NextRestore]_vars

\* ------------------------------------------------------ the translator
MaxRawPaths == 2

\* file names as the sequence of their dot-separated parts and the dots
RawNames ==
  { <<"a", ".", "txt">>, <<"b", ".", "md">>, <<".", "txt">>, <<"a", ".", "TXT">>,
    <<"a", ".", "txt", ".", "bak">>, <<"a">> }

\* the kinds of notify::EventKind
RawKinds == {"Any", "Access", "Create", "Modify", "Remove", "Other"}

\* the sequences of at most n file names
RECURSIVE RawPathSeqs(_)
RawPathSeqs(n) ==
  IF n = 0 THEN {<< >>}
  ELSE RawPathSeqs(n - 1)
         \cup {Append(ps, name) : ps \in {q \in RawPathSeqs(n - 1) : Len(q) = n - 1},
                                  name \in RawNames}

\* what the callback of watcher.rs line 15 is called with: an error of
\* notify or an Event with a kind and the affected paths
RawNotifications ==
  {[ok |-> FALSE]}
    \cup [ok : {TRUE}, kind : RawKinds, paths : RawPathSeqs(MaxRawPaths)]

\* Path::extension: what follows the last dot of the file name, nothing for
\* a name without a dot or whose only dot is its first character
Extension(name) ==
  LET dots == {i \in 1..Len(name) : name[i] = "."} IN
    IF dots = {} \/ dots = {1}
    THEN << >>
    ELSE LET k == CHOOSE i \in dots : \A j \in dots : j <= i
         IN SubSeq(name, k + 1, Len(name))

\* the filter also lets upper-case extensions through
IsNoteExtensionAnyCase(ext) == ext \in {<<"txt">>, <<"md">>, <<"TXT">>}

\* watcher.rs lines 37-40: matches!(.., Some("txt" | "md"))
IsNoteExtension(ext) == ext \in {<<"txt">>, <<"md">>}

\* watcher.rs lines 26-31: the IndexEvent constructor for a notify kind
MakeIndexEvent(kind) ==
  CASE kind = "Create" -> "Created"
    [] kind = "Modify" -> "Modified"
    [] kind = "Remove" -> "Deleted"
    [] OTHER -> "none"

\* watcher.rs lines 35-50: the loop over event.paths, sending to a receiver
\* that is alive
RECURSIVE SendPaths(_, _, _)
SendPaths(kind, paths, acc) ==
  IF paths = << >> THEN acc
  ELSE IF ~IsNoteExtension(Extension(Head(paths)))
       THEN SendPaths(kind, Tail(paths), acc)
       ELSE SendPaths(kind, Tail(paths),
                      Append(acc, [kind |-> kind, path |-> Head(paths)]))

\* watcher.rs lines 15-51: the events the callback sends for a notification
Callback(res) ==
  IF ~res.ok THEN << >>
  ELSE IF MakeIndexEvent(res.kind) = "none" THEN << >>
  ELSE SendPaths(MakeIndexEvent(res.kind), res.paths, << >>)

\* the watcher runs and the receiver lives: the state in which the callback
\* is called
InitTranslator ==
  /\ postings = NewIndex.postings
  /\ documents = NewIndex.documents
  /\ path_to_id = NewIndex.path_to_id
  /\ doc_tokens = NewIndex.doc_tokens
  /\ last = [op |-> "new"]
  /\ result = << >>
  /\ fresh_adds = TRUE
  /\ pc = "parked"
  /\ queue = << >>
  /\ tx_alive = TRUE
  /\ shutdown = "idle"
  /\ event = NoEvent
  /\ doc_opt = NoRead
  /\ new_doc = NoDoc
  /\ lock = "free"
  /\ rpc = "idle"
  /\ snapshot = NoSnapshot
  /\ sent = << >>
  /\ taken = << >>
  /\ persist = NoPersist
  /\ closed_with = 0
  /\ applied = << >>

\* watcher.rs lines 15-51: notify calls the callback with res
Notify(res) ==
  /\ tx_alive
  /\ Len(sent) < MaxEvents
  /\ queue' = queue \o Callback(res)
  /\ sent' = sent \o Callback(res)
  /\ last' = [op |-> "notify", res |-> res]
  /\ UNCHANGED <<maps, result, fresh_adds, pc, tx_alive, shutdown, event, doc_opt,
                 new_doc, lock, rpc, snapshot, taken, persist, closed_with, applied>>

NextTranslator == \E res \in RawNotifications : Notify(res)

SpecTranslator == InitTranslator /\ [][NextTranslator]_vars

\* ------------------------------------------------------------- properties
AllTokens == UNION {UniqueTokens(text) : text \in Contents \cup Queries}

Values(m) == {m[k] : k \in DOMAIN m}

\* C1: in every state reached by add (ids not in the index), remove,
\* removeByPath and upsert (any document), d is in postings[t] exactly when
\* t is in docTokens[d].
PostingsMatchDocTokens ==
  fresh_adds =>
    \A d \in Ids, t \in AllTokens :
      (t \in DOMAIN postings /\ d \in postings[t])
        <=> (d \in DOMAIN doc_tokens /\ t \in doc_tokens[d])

\* C2: after every completed operation (adds only with ids not in the index)
\* the ids with a docTokens entry, the ids with a documents entry and the ids
\* that are values of pathIndex are the same set.
IdSetsCoincide ==
  fresh_adds =>
    /\ DOMAIN doc_tokens = DOMAIN documents
    /\ DOMAIN documents = Values(path_to_id)

\* C3: pathIndex is injective onto live documents: no two paths map to the
\* same id, and pathIndex[p] is a key of documents whose stored path is p.
PathIndexInjective ==
  fresh_adds =>
    /\ \A p, q \in DOMAIN path_to_id : path_to_id[p] = path_to_id[q] => p = q
    /\ \A p \in DOMAIN path_to_id :
         /\ path_to_id[p] \in DOMAIN documents
         /\ documents[path_to_id[p]].path = p

\* C4: no token of postings maps to an empty set of document ids.
NoEmptyPostings == \A t \in DOMAIN postings : postings[t] # {}

\* C4 witness: a remove took the last id of a token, whose entry is gone,
\* while a document without tokens is indexed.
LastIdRemoved ==
  /\ last.op = "remove"
  /\ \E t \in last.tokens : t \notin DOMAIN postings
  /\ \E d \in DOMAIN doc_tokens : doc_tokens[d] = {}

\* C5: for every reachable index and every document whose id is not in it,
\* add followed by remove of that id gives back the same four maps.
AddRemoveRoundTrip ==
  fresh_adds =>
    \A doc \in Document :
      doc.id \notin DOMAIN documents
        => RemoveDocument(AddDocument(Self, doc), doc.id) = Self

\* the ids search returns for a query made of the single token t
SearchToken(idx, t) == CollectIds(idx, <<t>>, 1, {})

\* the ids of the documents whose stored path is p
StoredAt(docs, p) == {d \in DOMAIN docs : docs[d].path = p}

SearchIsUnion ==
  last.op = "search" =>
    /\ Range(result)
         = UNION {postings[t] : t \in Range(Tokenize(last.query)) \cap DOMAIN postings}
    /\ \A i, j \in DOMAIN result : result[i] = result[j] => i = j

\* C7 witness: a search whose query has two tokens matching the same document
\* and that returned two documents.
SearchOverlapped ==
  /\ last.op = "search"
  /\ Len(result) = 2
  /\ LET toks == Tokenize(last.query)
     IN \E d \in Ids : \E i, j \in DOMAIN toks :
          /\ i # j
          /\ toks[i] \in DOMAIN postings /\ d \in postings[toks[i]]
          /\ toks[j] \in DOMAIN postings /\ d \in postings[toks[j]]

\* C8: search returns nothing when the query has no tokens and when none of
\* its tokens is a key of postings.
SearchEmpty ==
  ( /\ last.op = "search"
    /\ \/ Tokenize(last.query) = << >>
       \/ Range(Tokenize(last.query)) \cap DOMAIN postings = {} )
  => result = << >>

\* C8 witness: a search with tokens, none of them indexed, on an index that
\* holds postings, returned nothing.
SearchedUnknownToken ==
  /\ last.op = "search"
  /\ Tokenize(last.query) # << >>
  /\ Range(Tokenize(last.query)) \cap DOMAIN postings = {}
  /\ DOMAIN postings # {}
  /\ result = << >>

\* C9: remove of an id that is not in the index and removeByPath of a path
\* that is not in pathIndex change none of the four maps, and so does a second
\* remove of the same id or a second removeByPath of the same path.
UnknownRemoveIsNoOp ==
  [][ ( \/ last'.op = "remove" /\ last'.id \notin DOMAIN documents
        \/ last'.op = "remove_by_path" /\ last'.path \notin DOMAIN path_to_id
        \/ last.op = "remove" /\ last'.op = "remove" /\ last'.id = last.id
        \/ /\ last.op = "remove_by_path"
           /\ last'.op = "remove_by_path"
           /\ last'.path = last.path )
      => UNCHANGED maps ]_vars

\* C9 witness: removeByPath of a path that is not in pathIndex while a
\* document is stored under that very path.
RemovedUnknownPath ==
  /\ last.op = "remove_by_path"
  /\ ~last.hit
  /\ StoredAt(documents, last.path) # {}

\* C10: after remove of a present document d (directly or by its path), d is
\* in no posting set, has no docTokens and no documents entry, its own tokens
\* are no keys of postings, and the tokens it shared map to the other
\* documents that contain them.
RemoveClearsDocument ==
  [][ ( /\ fresh_adds'
        /\ \/ last'.op = "remove" /\ last'.id \in DOMAIN documents
           \/ /\ last'.op = "remove_by_path"
              /\ last'.path \in DOMAIN path_to_id
              /\ path_to_id[last'.path] \in DOMAIN documents )
      => LET d == IF last'.op = "remove" THEN last'.id ELSE path_to_id[last'.path]
         IN /\ \A t \in DOMAIN postings' : d \notin postings'[t]
            /\ d \notin DOMAIN doc_tokens'
            /\ d \notin DOMAIN documents'
            /\ \A t \in doc_tokens[d] :
                 LET others == {e \in DOMAIN doc_tokens \ {d} : t \in doc_tokens[e]}
                 IN IF others = {}
                    THEN t \notin DOMAIN postings'
                    ELSE t \in DOMAIN postings' /\ postings'[t] = others ]_vars

\* C11: remove(docId) deletes from pathIndex only the entry whose value is
\* docId; every entry whose value is another id stays as it was.
RemoveKeepsOtherPaths ==
  [][ (fresh_adds' /\ last'.op = "remove")
      => \A p \in DOMAIN path_to_id :
           path_to_id[p] # last'.id
             => p \in DOMAIN path_to_id' /\ path_to_id'[p] = path_to_id[p] ]_vars

\* the id occurs in none of the four maps of the index
IdUnused(id) ==
  /\ id \notin DOMAIN documents
  /\ id \notin DOMAIN doc_tokens
  /\ id \notin Values(path_to_id)
  /\ \A t \in DOMAIN postings : id \notin postings[t]

\* C12: add(doc) with an id that is not in the index stores the deduplicated
\* tokens of the content as docTokens[id], puts id into postings[t] for
\* exactly those tokens, stores documents[id] = doc and pathIndex[path] = id,
\* and changes the membership of no other id in any posting set.
AddIndexesDocument ==
  [][ (last'.op = "add" /\ IdUnused(last'.doc.id))
      => LET doc == last'.doc
             tokens == {t \in AllTokens :
                          \E i \in DOMAIN Tokenize(doc.content) :
                            Tokenize(doc.content)[i] = t}
         IN /\ doc.id \in DOMAIN doc_tokens' /\ doc_tokens'[doc.id] = tokens
            /\ \A t \in AllTokens :
                 (t \in DOMAIN postings' /\ doc.id \in postings'[t]) <=> t \in tokens
            /\ doc.id \in DOMAIN documents' /\ documents'[doc.id] = doc
            /\ doc.path \in DOMAIN path_to_id' /\ path_to_id'[doc.path] = doc.id
            /\ \A t \in AllTokens, d \in Ids \ {doc.id} :
                 (t \in DOMAIN postings' /\ d \in postings'[t])
                   <=> (t \in DOMAIN postings /\ d \in postings[t]) ]_vars

\* C12 witness: a document with two tokens, one of them repeated in no other
\* document, was added under an unused id next to a document sharing a token.
AddedNextToSharedToken ==
  /\ last.op = "add"
  /\ fresh_adds
  /\ Cardinality(doc_tokens[last.doc.id]) = 2
  /\ \E t \in doc_tokens[last.doc.id] : Cardinality(postings[t]) = 2
  /\ \E t \in doc_tokens[last.doc.id] : postings[t] = {last.doc.id}
  /\ \A t \in DOMAIN postings : \A d \in postings[t] :
       d \in DOMAIN doc_tokens /\ t \in doc_tokens[d]

\* the ids of the documents stored with the path
DocsAt(path) == {id \in DOMAIN documents : documents[id].path = path}

\* C13: the id bound to a path survives Created and Modified events: a path
\* loses its binding only while a Deleted event for it is applied or inside
\* the upsert of an event for it, which binds the path again to the same id;
\* after Created then Modified with successfully read, different content the
\* path holds one document, with the id of Created and the content of Modified
PathKeepsId ==
  [][/\ \A p \in DOMAIN path_to_id :
          /\ p \in DOMAIN path_to_id' => path_to_id'[p] = path_to_id[p]
          /\ p \notin DOMAIN path_to_id' =>
               /\ pc = "mutate"
               /\ event.path = p
               /\ \/ event.kind = "Deleted"
                  \/ pc' = "add" /\ new_doc'.id = path_to_id[p]
     /\ pc = "add" /\ pc' # "add" =>
          /\ new_doc.path \in DOMAIN path_to_id'
          /\ path_to_id'[new_doc.path] = new_doc.id
          /\ {id \in DOMAIN documents' : documents'[id].path = new_doc.path}
               = {new_doc.id}
          /\ documents'[new_doc.id].content = new_doc.content
          /\ last'.prior # NoDoc => last'.doc.id = last'.prior.id]_vars

\* C13 witness: Created then Modified of one path with another content were
\* both applied
CreatedThenModified ==
  /\ last.op = "upsert"
  /\ last.kind = "Modified"
  /\ last.prior_kind = "Created"
  /\ last.prior.content # last.doc.content
  /\ pc = "unlock"
  /\ DocsAt(last.doc.path) = {last.prior.id}
  /\ documents[last.prior.id].content = last.doc.content

\* C14: while the event source is open and no shutdown was signalled, every
\* event the translator queued is eventually taken by the synchronizer
QueuedEventuallyTaken ==
  \A n \in 1..MaxEvents :
    (Len(sent) >= n) ~> (Len(taken) >= n \/ ~tx_alive \/ shutdown # "idle")

\* the loop after rx.recv() is never entered by the thread as written
LoopBodyUnreached == pc \in {"watch_notes", "parked", "check_shutdown", "recv", "exited"}

\* C15: once the shutdown signal was sent the synchronizer eventually leaves
\* its loop, even if no further event arrives
ShutdownLeadsToExit == (shutdown = "sent") ~> (pc = "exited")

\* C16: the events are taken in queue order and none is skipped; the loop is
\* left through the closed channel only when the sender is gone and every
\* queued event was taken; on a closed, empty queue recv does not block
ClosedSourceDrains ==
  /\ taken \o queue = sent
  /\ pc = "exited" /\ shutdown # "received" =>
       ~tx_alive /\ queue = << >> /\ taken = sent
  /\ pc = "recv" /\ ~tx_alive /\ queue = << >> => ENABLED Recv

\* C16 witness: the source was closed with MaxEvents events queued, all of
\* them were taken, then the loop was left
DrainedAfterClose ==
  /\ closed_with = MaxEvents
  /\ pc = "exited"
  /\ shutdown = "idle"
  /\ taken = sent
  /\ Len(taken) = MaxEvents

\* C17: from the failed read of a Created or Modified event to the end of
\* its iteration no step changes any of the four maps, the loop is not left,
\* and the iteration ends back at the top of the loop
FailedReadMutatesNothing ==
  [][(/\ event.kind \in {"Created", "Modified"}
      /\ ~doc_opt.ok
      /\ pc \in {"lock_mutate", "mutate", "unlock", "lock_save", "save"})
     => /\ UNCHANGED maps
        /\ pc' # "exited"
        /\ pc = "save" /\ pc' # pc => pc' = "check_shutdown"]_vars

\* C17 witness: the read for an event at an indexed path failed, the document
\* is still indexed there and the loop is back at its top
DroppedAtIndexedPath ==
  /\ last.op = "dropped"
  /\ pc = "check_shutdown"
  /\ last.path \in DOMAIN path_to_id
  /\ DocsAt(last.path) = {path_to_id[last.path]}

\* C18: while a query caller holds the index, the synchronizer is outside
\* its two locked sections, in particular not between the removal and the
\* add of an upsert, and the index the caller reads satisfies the four-map
\* invariants
ReaderSeesWholeIndex ==
  rpc \in {"search", "print", "return"} =>
    /\ lock = "reader"
    /\ pc \notin {"mutate", "add", "unlock", "save"}
    /\ PostingsMatchDocTokens
    /\ IdSetsCoincide
    /\ PathIndexInjective
    /\ NoEmptyPostings

\* C18 witness: the query caller reads a non-empty index while the
\* synchronizer waits for the lock to replace an indexed document
ReaderBlocksUpsert ==
  /\ rpc = "search"
  /\ pc = "lock_mutate"
  /\ doc_opt.ok
  /\ doc_opt.path \in DOMAIN path_to_id
  /\ documents[path_to_id[doc_opt.path]].content # doc_opt.content

\* the snapshot file holds exactly the four maps of the index in memory
SnapshotIsIndex ==
  /\ snapshot.state = "written"
  /\ snapshot.postings = Entries(postings)
  /\ snapshot.documents = Entries(documents)
  /\ snapshot.path_to_id = Entries(path_to_id)
  /\ snapshot.doc_tokens = Entries(doc_tokens)

\* C19: a mutation is still unpersisted only inside the iteration that made
\* it, so no event is taken before the persist attempt; the attempt is made
\* with the index lock held; after a successful attempt the snapshot holds
\* the four maps as the mutation left them
PersistFollowsMutation ==
  /\ persist.outcome = "pending" => pc \in {"add", "unlock", "lock_save", "save"}
  /\ pc = "save" => lock = "sync"
  /\ persist.outcome = "ok" => SnapshotIsIndex

\* C19 witness: a second upsert of a path was persisted
PersistedSecondUpsert ==
  /\ persist.outcome = "ok"
  /\ pc = "check_shutdown"
  /\ last.op = "upsert"
  /\ last.prior # NoDoc
  /\ last.prior.content # last.doc.content
  /\ <<last.doc.id, documents[last.doc.id]>> \in snapshot.documents

\* C20: a failed save changes none of the four maps and sends the loop back
\* to its top; whenever a save succeeds, also after a failed one, the
\* snapshot holds the index of that moment
FailedSaveIsRecovered ==
  [][pc = "save" /\ pc' # "save" =>
       /\ persist'.outcome \in {"ok", "failed"}
       /\ persist'.outcome = "failed" =>
            UNCHANGED maps /\ pc' = "check_shutdown"
       /\ persist'.outcome = "ok" => SnapshotIsIndex']_vars

\* C20 witness: after a failed save another event was taken and mutated the
\* index, and the save that followed succeeded
SavedAfterFailure ==
  /\ persist.outcome = "ok"
  /\ persist.failed_before
  /\ Len(taken) = MaxEvents
  /\ last.op = "upsert"
  /\ last.prior # NoDoc
  /\ SnapshotIsIndex

\* the index mutations made so far, in the order they were made
Mutations == SelectSeq(applied, LAMBDA a : a.op # "dropped")

\* C21: the i-th handled event is the i-th event of the queue; a Deleted
\* event is applied as one removal by path, a Created or Modified event as
\* one upsert of the content read, unless its read failed; the maps change
\* in no other step, and every taken event is handled before the loop is
\* back at its top
EventsAppliedInOrder ==
  [][/\ Len(applied') <= Len(taken')
     /\ pc' \in {"check_shutdown", "recv", "exited"} => Len(applied') = Len(taken')
     /\ \A i \in 1..Len(applied') :
          /\ applied'[i].path = sent'[i].path
          /\ applied'[i].op = "remove_by_path" <=> sent'[i].kind = "Deleted"
     /\ applied' # applied =>
          /\ applied' = Append(applied, applied'[Len(applied')])
          /\ applied'[Len(applied')].op = "dropped" => ~doc_opt.ok /\ UNCHANGED maps
          /\ applied'[Len(applied')].op = "upsert" =>
               /\ doc_opt.ok
               /\ applied'[Len(applied')].content = doc_opt.content
               /\ path_to_id'[doc_opt.path] \in DOMAIN documents'
               /\ documents'[path_to_id'[doc_opt.path]].content = doc_opt.content
          /\ applied'[Len(applied')].op = "remove_by_path" =>
               event.path \notin DOMAIN path_to_id'
     /\ maps' # maps => applied' # applied \/ (pc = "mutate" /\ pc' = "add")]_vars

\* C21 witness: Created and Modified of one path, queued one after the
\* other, were applied as two upserts
TwoSuccessiveUpserts ==
  /\ Len(Mutations) = 2
  /\ Mutations[1].op = "upsert"
  /\ Mutations[2].op = "upsert"
  /\ Mutations[1].path = Mutations[2].path
  /\ Mutations[1].content # Mutations[2].content
  /\ sent[1].kind = "Created"
  /\ sent[2].kind = "Modified"
  /\ closed_with = 2

\* C22: when the load at startup fails, the process goes on with an Index
\* whose four maps are empty
FailedLoadGivesNewIndex ==
  last.op = "load" /\ ~last.ok =>
    /\ pc = "started"
    /\ postings = EmptyMap
    /\ documents = EmptyMap
    /\ path_to_id = EmptyMap
    /\ doc_tokens = EmptyMap

\* C22 witness: the load failed on a corrupt snapshot file and the process
\* started with the empty index
StartedOnCorruptSnapshot ==
  /\ last.op = "load"
  /\ ~last.ok
  /\ snapshot = PartialSnapshot
  /\ pc = "started"
  /\ Self = NewIndex

\* C23: after a start from a written snapshot the four maps are those the
\* snapshot was written for
RestoreRoundTrip ==
  last.op = "load" /\ snapshot.state = "written" => Serialize(Self) = snapshot

\* C24: a query call has released the index lock before its results are
\* printed, so the synchronizer never waits for the lock while they are
\* presented
QueryReleasesBeforePrint == rpc \in {"print", "return"} => lock # "reader"

\* C25: the synchronizer does not hold the index lock while it waits for an
\* event or reads a file; the read is over when it asks for the lock, and a
\* Deleted event yields no file content
NoLockWhileReading ==
  [][/\ pc \in {"check_shutdown", "recv", "read", "lock_mutate"} => lock # "sync"
     /\ pc = "read" /\ pc' # "read" =>
          /\ lock' # "sync"
          /\ pc' = "lock_mutate"
          /\ event.kind = "Deleted" => doc_opt' = NoRead
     /\ pc = "lock_mutate" => UNCHANGED doc_opt]_vars

\* C25 witness: the file of a Modified event was read while the query
\* caller held the lock
ReadWhileReaderHoldsLock ==
  /\ pc = "lock_mutate"
  /\ event.kind = "Modified"
  /\ doc_opt.ok
  /\ lock = "reader"

\* the file name ends in a dot followed by txt or md, after at least one
\* other part
EndsInTxtOrMd(name) ==
  /\ Len(name) >= 3
  /\ name[Len(name) - 1] = "."
  /\ name[Len(name)] \in {"txt", "md"}

\* C26: a notification makes the translator send, in the order of its
\* paths, one event per path that ends in .txt or .md, Created for a
\* Create, Modified for a Modify and Deleted for a Remove notification, and
\* nothing for other paths, other kinds and errors of notify
TranslatorEmitsPerPath ==
  [][last'.op = "notify" =>
       LET res == last'.res
           emitted == SubSeq(sent', Len(sent) + 1, Len(sent'))
           notes == IF res.ok /\ res.kind \in {"Create", "Modify", "Remove"}
                    THEN SelectSeq(res.paths, EndsInTxtOrMd)
                    ELSE << >>
       IN /\ queue' = queue \o emitted
          /\ sent' = sent \o emitted
          /\ Len(emitted) = Len(notes)
          /\ \A i \in 1..Len(notes) :
               /\ emitted[i].path = notes[i]
               /\ res.kind = "Create" => emitted[i].kind = "Created"
               /\ res.kind = "Modify" => emitted[i].kind = "Modified"
               /\ res.kind = "Remove" => emitted[i].kind = "Deleted"]_vars

\* C26 witness: a Modify notification of a .md and a .TXT path sent the one
\* Modified event of the .md path
ModifySentForMdOnly ==
  /\ last.op = "notify"
  /\ last.res.ok
  /\ last.res.kind = "Modify"
  /\ last.res.paths = << <<"b", ".", "md">>, <<"a", ".", "TXT">> >>
  /\ sent = << [kind |-> "Modified", path |-> <<"b", ".", "md">>] >>

\* C27: from the empty index, with the synchronizer as the only writer,
\* every state in which the index lock is free has d in postings[t] iff t in
\* doc_tokens[d], the same ids in documents, doc_tokens and the values of
\* path_to_id, an injective path_to_id, and documents[path_to_id[p]].path = p
SyncKeepsInvariants ==
  lock = "free" =>
    /\ \A d \in Ids, t \in AllTokens :
         (t \in DOMAIN postings /\ d \in postings[t])
           <=> (d \in DOMAIN doc_tokens /\ t \in doc_tokens[d])
    /\ DOMAIN doc_tokens = DOMAIN documents
    /\ DOMAIN documents = Values(path_to_id)
    /\ \A p, q \in DOMAIN path_to_id : path_to_id[p] = path_to_id[q] => p = q
    /\ \A p \in DOMAIN path_to_id :
         /\ path_to_id[p] \in DOMAIN documents
         /\ documents[path_to_id[p]].path = p

\* C27 witness: after two upserts of one path with different content the
\* lock is free with a document indexed
FreeAfterReplacingUpsert ==
  /\ lock = "free"
  /\ pc = "lock_save"
  /\ Len(applied) = MaxEvents
  /\ applied[1].op = "upsert"
  /\ applied[MaxEvents].op = "upsert"
  /\ applied[1].path = applied[MaxEvents].path
  /\ applied[1].content # applied[MaxEvents].content
  /\ DOMAIN documents # {}

\* C28: the synchronizer does not hold the lock when it asks for it, for the
\* mutation or for the save, nor does the query caller; whoever holds the
\* lock is inside its locked section and can take its next step without
\* waiting for anything; a free lock can be taken by whoever asks for it
LockIsDeadlockFree ==
  /\ pc \in {"lock_mutate", "lock_save"} => lock # "sync"
  /\ rpc = "start" => lock # "reader"
  /\ lock = "sync" => pc \in {"mutate", "add", "unlock", "save"} /\ ENABLED SyncStep
  /\ lock = "reader" => rpc \in {"search", "print", "return"} /\ ENABLED ReaderStep
  /\ lock = "free" /\ pc \in {"lock_mutate", "lock_save"} => ENABLED SyncStep
  /\ lock = "free" /\ rpc = "start" => ENABLED ReaderLock

\* C28 witness: the synchronizer asks for the lock for its save, having
\* released the lock of the mutation, while the query caller holds it
SaveWaitsForReader ==
  /\ pc = "lock_save"
  /\ persist.outcome = "pending"
  /\ lock = "reader"
  /\ rpc = "print"
====
